---- MODULE Spec2Model ----
(***************************************************************************)
(* A model of the Ludo match engine (backend/gameLogic.js, class LudoGame, *)
(* the latest revision in the file) and of the server entry points that    *)
(* drive one room (socket handlers and the turn timer).                    *)
(*                                                                         *)
(* The match is one record, game, whose fields carry the names of the      *)
(* fields of LudoGame.  Every method of LudoGame is an operator from a     *)
(* match record to the match record after the call and the value returned. *)
(* Array indices are kept 0-based as in the source (currentPlayerIndex,    *)
(* token indices); player k of the source is g.players[k + 1].             *)
(***************************************************************************)
EXTENDS Integers, Sequences, FiniteSets, TLC

VARIABLES
    game,         \* the LudoGame instance of the room
    playerRooms,  \* GameStateManager.playerRooms: the human ids mapped to the room
    roomExists,   \* GameStateManager.rooms still holds the room
    roomTimer,    \* GameStateManager.roomTimers holds a running turn timer
    robotTurns,   \* the calls of checkAndProcessRobotTurn that wait on a delay
    last,         \* the last request and what the engine answered (history)
    steps         \* number of requests still to serve (bounds the exploration)

vars == <<game, playerRooms, roomExists, roomTimer, robotTurns, last, steps>>

-----------------------------------------------------------------------------
(* Bounds of the exploration *)

\* human player ids are 1..NumHumans
NumHumans == 2
\* requests served in one behaviour that starts from a freshly created room
MaxSteps == 5
\* requests served in one behaviour that starts from an end-game or elimination position
MaxMidSteps == 2
\* requests served in one behaviour that starts with a token on its lap and a dice rolled
MoveSteps == 1
\* calls of checkAndProcessRobotTurn that wait at one time
MaxRobotCalls == 2

-----------------------------------------------------------------------------
(* Board configuration: the constructor of LudoGame *)

BOARD_SIZE == 52
TOKENS_PER_PLAYER == 4
HOME_STRETCH_LENGTH == 5
SAFE_POSITIONS == {0, 8, 13, 21, 26, 34, 39, 47}
START_POSITIONS == [red |-> 0, green |-> 13, yellow |-> 26, blue |-> 39]
HOME_ENTRANCE == [red |-> 50, green |-> 11, yellow |-> 24, blue |-> 37]
\* incrementMissedTurns eliminates at this many missed turns
MISSED_TURN_LIMIT == 5

\* the colors array of addPlayer and addRobot, in its order
colors == <<"red", "yellow", "blue", "green">>
ColorSet == {colors[i] : i \in 1..4}

\* null for lastDiceRoll (a dice value is 1..6, and !lastDiceRoll tests it)
NoDice == 0
DiceValues == 1..6
\* null / undefined where the source holds a colour or nothing
NullColor == "null"

HumanIds == 1..NumHumans
\* robot-<uuid>: the k-th robot that joins gets the fresh id ROBOT_BASE + k
ROBOT_BASE == 100
RobotIds == {ROBOT_BASE + k : k \in 1..4}
\* every id a player of the room can have: the keys playerMissedTurns can hold
PlayerIds == HumanIds \cup RobotIds
\* token indices a client may send: 0..3 and one index that is out of range
TokenIndexInputs == 0..TOKENS_PER_PLAYER

Token(pos, inHS, hsp, fin) ==
    [position |-> pos, inHomeStretch |-> inHS, homeStretchPosition |-> hsp, finished |-> fin]

initializeTokens == [i \in 1..TOKENS_PER_PLAYER |-> Token(-1, FALSE, -1, FALSE)]

Player(id, color, tokens, finishedTokens, isRobot) ==
    [id |-> id, color |-> color, tokens |-> tokens,
     finishedTokens |-> finishedTokens, isRobot |-> isRobot]

NoWinner == [kind |-> "none", id |-> 0, color |-> NullColor]

NewGame(teamMode) ==
    [players |-> << >>,
     currentPlayerIndex |-> 0,
     gameStarted |-> FALSE,
     gameOver |-> FALSE,
     winner |-> NoWinner,
     lastDiceRoll |-> NoDice,
     consecutiveSixes |-> 0,
     playerMissedTurns |-> [id \in PlayerIds |-> 0],
     eliminatedPlayers |-> {},
     teamMode |-> teamMode,
     teams |-> [team1 |-> {}, team2 |-> {}]]

-----------------------------------------------------------------------------
(* Lookups *)

Min(S) == CHOOSE x \in S : \A y \in S : x <= y

\* players.findIndex(p => p.id === id) + 1, 0 when there is none
FindById(g, id) ==
    IF \E i \in 1..Len(g.players) : g.players[i].id = id
    THEN Min({i \in 1..Len(g.players) : g.players[i].id = id})
    ELSE 0

\* players.find(p => p.color === color), as a seat, 0 when there is none
FindByColor(g, color) ==
    IF \E i \in 1..Len(g.players) : g.players[i].color = color
    THEN Min({i \in 1..Len(g.players) : g.players[i].color = color})
    ELSE 0

takenColors(g) == {g.players[i].color : i \in 1..Len(g.players)}

\* the last free colour of the list instead of the first
LastFreeColor(g) ==
    IF \E i \in 1..4 : colors[i] \notin takenColors(g)
    THEN colors[CHOOSE i \in 1..4 :
                    /\ colors[i] \notin takenColors(g)
                    /\ \A j \in 1..4 : colors[j] \notin takenColors(g) => j <= i]
    ELSE NullColor

\* colors.find(c => !takenColors.includes(c))
FirstFreeColor(g) ==
    IF \E i \in 1..4 : colors[i] \notin takenColors(g)
    THEN colors[Min({i \in 1..4 : colors[i] \notin takenColors(g)})]
    ELSE NullColor

FinishedAt(g, seat) ==
    seat # 0 /\ g.players[seat].finishedTokens = TOKENS_PER_PLAYER

isPlayerFinished(g, id) == FinishedAt(g, FindById(g, id))

isPlayerEliminated(g, id) == id \in g.eliminatedPlayers

OtherIn(team, color) ==
    IF team \ {color} = {} THEN NullColor ELSE CHOOSE c \in team \ {color} : TRUE

getTeammateColor(g, color) ==
    IF ~g.teamMode THEN NullColor
    ELSE IF color \in g.teams.team1 THEN OtherIn(g.teams.team1, color)
    ELSE IF color \in g.teams.team2 THEN OtherIn(g.teams.team2, color)
    ELSE NullColor

\* players.find(...) || player
FoundOr(found, seat) == IF found # 0 THEN found ELSE seat

\* every player moving their own tokens, finished or not
TargetSeatOwn(g, seat) == seat

\* the seat whose tokens the player of `seat` moves: the teammate's once the
\* player has finished in team mode, the player's own otherwise
TargetSeat(g, seat) ==
    IF g.teamMode /\ isPlayerFinished(g, g.players[seat].id)
    THEN FoundOr(FindByColor(g, getTeammateColor(g, g.players[seat].color)), seat)
    ELSE seat

-----------------------------------------------------------------------------
(* What a request returns.  Every result has the same fields; a field an    *)
(* operation does not set keeps the value it has in NoResult.               *)

NoResult ==
    [op |-> "none",          \* the entry point
     pid |-> 0,              \* the requesting player id (0: none)
     tokenIndex |-> -1,      \* the token index asked for or chosen
     success |-> FALSE,
     error |-> "",
     diceValue |-> NoDice,   \* the dice value the call drew or used
     rolled |-> FALSE,       \* the call drew a dice value and stored it
     canMove |-> FALSE,
     turnSkipped |-> FALSE,
     movableTokens |-> {},   \* getMovableTokens at the time of the call
     moved |-> FALSE,        \* the call moved a token
     seat |-> 0,             \* seat of the player whose token was moved
     before |-> Token(-1, FALSE, -1, FALSE),   \* that token before the move
     captured |-> {},        \* <<seat, token index>> of every captured token
     anotherTurn |-> FALSE,
     noMove |-> FALSE,
     missed |-> FALSE,       \* a missed turn was counted
     eliminated |-> FALSE]   \* incrementMissedTurns eliminated the player

Fail(op, pid, tokenIndex, error) ==
    [NoResult EXCEPT !.op = op, !.pid = pid, !.tokenIndex = tokenIndex, !.error = error]

-----------------------------------------------------------------------------
(* LudoGame: joining, leaving, starting *)

\* the colour by the number of players only: yellow for every second joiner
availableColorBySeat(g) ==
    IF Len(g.players) = 0 THEN "red"
    ELSE IF Len(g.players) = 1 THEN "yellow"
    ELSE FirstFreeColor(g)

availableColorFor(g) ==
    IF Len(g.players) = 0 THEN "red"
    ELSE IF Len(g.players) = 1 /\ "yellow" \notin takenColors(g) THEN "yellow"
    ELSE FirstFreeColor(g)

addPlayer(g, playerId) ==
    IF Len(g.players) >= 4
    THEN [g |-> g, r |-> Fail("addPlayer", playerId, -1, "Game is full")]
    ELSE IF g.gameStarted
    THEN [g |-> g, r |-> Fail("addPlayer", playerId, -1, "Game already started")]
    ELSE [g |-> [g EXCEPT !.players =
                     Append(@, Player(playerId, availableColorFor(g), initializeTokens, 0, FALSE))],
          r |-> [NoResult EXCEPT !.op = "addPlayer", !.pid = playerId, !.success = TRUE]]

\* the robots of a room are never removed, so this id is fresh
NewRobotId(g) ==
    ROBOT_BASE + 1 + Cardinality({i \in 1..Len(g.players) : g.players[i].isRobot})

\* addRobot without its capacity check
addRobotAlways(g) ==
    IF g.gameStarted
    THEN [g |-> g, r |-> Fail("addRobot", 0, -1, "Game already started")]
    ELSE [g |-> [g EXCEPT !.players =
                     Append(@, Player(NewRobotId(g), FirstFreeColor(g), initializeTokens, 0, TRUE))],
          r |-> [NoResult EXCEPT !.op = "addRobot", !.pid = NewRobotId(g), !.success = TRUE]]

addRobot(g) ==
    IF Len(g.players) >= 4
    THEN [g |-> g, r |-> Fail("addRobot", 0, -1, "Game is full")]
    ELSE IF g.gameStarted
    THEN [g |-> g, r |-> Fail("addRobot", 0, -1, "Game already started")]
    ELSE [g |-> [g EXCEPT !.players =
                     Append(@, Player(NewRobotId(g), FirstFreeColor(g), initializeTokens, 0, TRUE))],
          r |-> [NoResult EXCEPT !.op = "addRobot", !.pid = NewRobotId(g), !.success = TRUE]]

Splice(seq, i) == SubSeq(seq, 1, i - 1) \o SubSeq(seq, i + 1, Len(seq))

removePlayer(g, playerId) ==
    IF FindById(g, playerId) # 0
    THEN [g |-> [g EXCEPT !.players = Splice(@, FindById(g, playerId)),
                          !.currentPlayerIndex =
                              IF @ >= Len(g.players) - 1 THEN 0 ELSE @],
          r |-> [NoResult EXCEPT !.op = "removePlayer", !.pid = playerId, !.success = TRUE]]
    ELSE [g |-> g, r |-> Fail("removePlayer", playerId, -1, "")]

initializeTeams(g) ==
    IF Len(g.players) = 2 THEN [team1 |-> {"red"}, team2 |-> {"yellow"}]
    ELSE IF Len(g.players) = 4 THEN [team1 |-> {"red", "yellow"}, team2 |-> {"blue", "green"}]
    ELSE g.teams

startGame(g) ==
    IF Len(g.players) < 2
    THEN [g |-> g, r |-> Fail("startGame", 0, -1, "Need at least 2 players to start")]
    ELSE [g |-> [g EXCEPT !.gameStarted = TRUE,
                          !.currentPlayerIndex = 0,
                          !.teams = IF g.teamMode THEN initializeTeams(g) ELSE @],
          r |-> [NoResult EXCEPT !.op = "startGame", !.success = TRUE]]

-----------------------------------------------------------------------------
(* LudoGame: the turn pointer *)

\* nextTurn stepping to the next seat, eliminated or not
NextIndexPlain(g) == (g.currentPlayerIndex + 1) % Len(g.players)

\* the index the do-while loop of nextTurn stops at
NextIndex(g) ==
    LET n == Len(g.players)
        start == g.currentPlayerIndex
        cand(k) == (start + k) % n
        stops == {k \in 1..n : \/ ~isPlayerEliminated(g, g.players[cand(k) + 1].id)
                               \/ cand(k) = start}
    IN  cand(Min(stops))

nextTurn(g) ==
    [g EXCEPT !.currentPlayerIndex = NextIndex(g),
              !.consecutiveSixes = 0,
              !.lastDiceRoll = NoDice]

-----------------------------------------------------------------------------
(* LudoGame: the movable set *)

\* the loop body without the overshoot test of the home stretch
TokenMovableOvershoot(token, diceValue) ==
    IF token.position = -1 THEN diceValue = 6
    ELSE ~token.finished

\* the body of the loop of getMovableTokens, for one token
TokenMovable(token, diceValue) ==
    IF token.position = -1 THEN diceValue = 6
    ELSE IF token.finished THEN FALSE
    ELSE IF token.inHomeStretch
         THEN token.homeStretchPosition + diceValue <= HOME_STRETCH_LENGTH
    ELSE TRUE

\* the loop of getMovableTokens over the tokens of targetPlayer: the token
\* indices (0-based, pushed in increasing order) that may move
MovableOf(g, target, diceValue) ==
    IF ~isPlayerFinished(g, g.players[target].id)
    THEN {i \in 0..(TOKENS_PER_PLAYER - 1) :
             TokenMovable(g.players[target].tokens[i + 1], diceValue)}
    ELSE {}

getMovableTokens(g, seat, diceValue) == MovableOf(g, TargetSeat(g, seat), diceValue)


-----------------------------------------------------------------------------
(* LudoGame: rolling *)

RollOk(playerId, diceValue) ==
    [NoResult EXCEPT !.op = "rollDice", !.pid = playerId, !.success = TRUE,
                     !.diceValue = diceValue, !.rolled = TRUE]

\* rollDice passing the turn whenever nothing is movable, even after a 6
RolledWithPass(g1, playerId, diceValue, movableTokens) ==
    IF movableTokens # {}
    THEN [g |-> g1,
          r |-> [RollOk(playerId, diceValue) EXCEPT !.canMove = TRUE,
                                                    !.movableTokens = movableTokens]]
    ELSE [g |-> nextTurn([g1 EXCEPT !.lastDiceRoll = NoDice]),
          r |-> [RollOk(playerId, diceValue) EXCEPT !.turnSkipped = TRUE]]

\* rollDice once the six-streak is known not to be 3: g1 holds the new dice value
RolledWith(g1, playerId, diceValue, movableTokens) ==
    IF movableTokens # {}
    THEN [g |-> g1,
          r |-> [RollOk(playerId, diceValue) EXCEPT !.canMove = TRUE,
                                                    !.movableTokens = movableTokens]]
    ELSE IF diceValue = 6
    THEN [g |-> [g1 EXCEPT !.lastDiceRoll = NoDice], r |-> RollOk(playerId, diceValue)]
    ELSE [g |-> nextTurn([g1 EXCEPT !.lastDiceRoll = NoDice]),
          r |-> [RollOk(playerId, diceValue) EXCEPT !.turnSkipped = TRUE]]

\* rollDice without the rule of the three sixes
RolledAnyStreak(g1, playerId, diceValue) ==
    RolledWith(g1, playerId, diceValue,
               getMovableTokens(g1, g1.currentPlayerIndex + 1, diceValue))

\* rollDice after the dice value and the six-streak are stored in g1
Rolled(g1, playerId, diceValue) ==
    IF g1.consecutiveSixes = 3
    THEN [g |-> nextTurn([g1 EXCEPT !.lastDiceRoll = NoDice]),
          r |-> [RollOk(playerId, diceValue) EXCEPT !.turnSkipped = TRUE]]
    ELSE RolledWith(g1, playerId, diceValue,
                    getMovableTokens(g1, g1.currentPlayerIndex + 1, diceValue))

\* rollDice without its turn check
rollDiceOutOfTurn(g, playerId, diceValue) ==
    IF ~g.gameStarted \/ g.gameOver \/ Len(g.players) = 0
    THEN [g |-> g, r |-> Fail("rollDice", playerId, -1, "Game not in progress")]
    ELSE Rolled([g EXCEPT !.lastDiceRoll = diceValue,
                          !.consecutiveSixes = IF diceValue = 6 THEN @ + 1 ELSE 0],
                playerId, diceValue)

rollDice(g, playerId, diceValue) ==
    IF ~g.gameStarted \/ g.gameOver
    THEN [g |-> g, r |-> Fail("rollDice", playerId, -1, "Game not in progress")]
    ELSE IF Len(g.players) = 0
    THEN [g |-> g, r |-> Fail("rollDice", playerId, -1, "TypeError")]
    ELSE IF g.players[g.currentPlayerIndex + 1].id # playerId
    THEN [g |-> g, r |-> Fail("rollDice", playerId, -1, "Not your turn")]
    ELSE Rolled([g EXCEPT !.lastDiceRoll = diceValue,
                          !.consecutiveSixes = IF diceValue = 6 THEN @ + 1 ELSE 0],
                playerId, diceValue)

-----------------------------------------------------------------------------
(* LudoGame: moving *)

\* the condition under which the loop of willEnterHomeStretch returns true at step i
EntersAt(currentPos, i, homeEntrance, nextPos) ==
    \/ nextPos = homeEntrance
    \/ IF currentPos < homeEntrance
       THEN nextPos > currentPos /\ nextPos >= homeEntrance
       ELSE nextPos < currentPos /\ nextPos >= homeEntrance

\* willEnterHomeStretch looking at the landing square only
willEnterAtLanding(currentPos, diceValue, homeEntrance) ==
    (currentPos + diceValue) % BOARD_SIZE = homeEntrance

willEnterHomeStretch(currentPos, diceValue, homeEntrance) ==
    \E i \in 1..diceValue :
        EntersAt(currentPos, i, homeEntrance, (currentPos + i) % BOARD_SIZE)

\* the condition under which the loop of calculateHomeStretchSteps returns at step i
StepsAt(currentPos, i, homeEntrance, nextPos) ==
    \/ nextPos = homeEntrance
    \/ (currentPos < homeEntrance /\ nextPos >= homeEntrance)
    \/ (currentPos > homeEntrance /\ nextPos < currentPos /\ nextPos >= homeEntrance)

FirstOr(hits, diceValue) == IF hits = {} THEN 0 ELSE diceValue - Min(hits)

\* calculateHomeStretchSteps counting the steps up to the entrance too
calculateHomeStretchStepsWhole(currentPos, diceValue, homeEntrance) == diceValue

calculateHomeStretchSteps(currentPos, diceValue, homeEntrance) ==
    FirstOr({i \in 1..diceValue :
                StepsAt(currentPos, i, homeEntrance, (currentPos + i) % BOARD_SIZE)},
            diceValue)

\* the test of checkCapture without the teammate exemption
CapturableByTeam(g, moverSeat, seat, token, position) ==
    /\ g.players[seat].id # g.players[moverSeat].id
    /\ token.position = position
    /\ ~token.inHomeStretch
    /\ ~token.finished

\* the test checkCapture applies to one token of one other player
Capturable(g, moverSeat, seat, token, position) ==
    /\ g.players[seat].id # g.players[moverSeat].id
    /\ ~(g.teamMode /\ g.players[seat].color = getTeammateColor(g, g.players[moverSeat].color))
    /\ token.position = position
    /\ ~token.inHomeStretch
    /\ ~token.finished

\* checkCapture without the safe squares
checkCaptureAnywhere(g, moverSeat, position) ==
    [players |->
         [s \in 1..Len(g.players) |->
             [g.players[s] EXCEPT !.tokens =
                 [i \in 1..TOKENS_PER_PLAYER |->
                     IF Capturable(g, moverSeat, s, g.players[s].tokens[i], position)
                     THEN [g.players[s].tokens[i] EXCEPT !.position = -1]
                     ELSE g.players[s].tokens[i]]]],
     captured |->
         {<<s, i>> \in (1..Len(g.players)) \X (0..(TOKENS_PER_PLAYER - 1)) :
             Capturable(g, moverSeat, s, g.players[s].tokens[i + 1], position)}]

\* checkCapture sending no token back to base
checkCaptureNone(g, moverSeat, position) ==
    [players |-> g.players, captured |-> {}]

\* checkCapture: the players after the captures, and the captured tokens
checkCapture(g, moverSeat, position) ==
    IF position \in SAFE_POSITIONS
    THEN [players |-> g.players, captured |-> {}]
    ELSE [players |->
              [s \in 1..Len(g.players) |->
                  [g.players[s] EXCEPT !.tokens =
                      [i \in 1..TOKENS_PER_PLAYER |->
                          IF Capturable(g, moverSeat, s, g.players[s].tokens[i], position)
                          THEN [g.players[s].tokens[i] EXCEPT !.position = -1]
                          ELSE g.players[s].tokens[i]]]],
          captured |->
              {<<s, i>> \in (1..Len(g.players)) \X (0..(TOKENS_PER_PLAYER - 1)) :
                  Capturable(g, moverSeat, s, g.players[s].tokens[i + 1], position)}]

TeamFinished(g, team) ==
    \A c \in team : FinishedAt(g, FindByColor(g, c))

\* "team1", "team2", or "null" when no team has finished
checkTeamVictory(g) ==
    IF ~g.teamMode THEN "null"
    ELSE IF TeamFinished(g, g.teams.team1) THEN "team1"
    ELSE IF TeamFinished(g, g.teams.team2) THEN "team2"
    ELSE "null"

\* a token put at homeStretchPosition hsp of the home stretch
InHome(token, hsp) ==
    [token EXCEPT !.inHomeStretch = TRUE,
                  !.homeStretchPosition = hsp,
                  !.finished = (hsp = HOME_STRETCH_LENGTH) \/ @]

\* the token after the movement step of moveToken (before any capture)
MovedToken(token, color, diceValue) ==
    IF token.position = -1
    THEN [token EXCEPT !.position = START_POSITIONS[color]]
    ELSE IF token.inHomeStretch
    THEN InHome(token, token.homeStretchPosition + diceValue)
    ELSE IF willEnterHomeStretch(token.position, diceValue, HOME_ENTRANCE[color])
    THEN InHome(token, calculateHomeStretchSteps(token.position, diceValue, HOME_ENTRANCE[color]))
    ELSE [token EXCEPT !.position = (token.position + diceValue) % BOARD_SIZE]

\* the movement step ran checkCapture: the token was on the main board and stays on it
LandsOnTrack(token, after) ==
    token.position # -1 /\ ~after.inHomeStretch

\* the count raised by every move that ends in the home stretch
FinishesNowInStretch(token, after) ==
    token.position # -1 /\ after.inHomeStretch

\* the movement step counted one more finished token (finishedTokens++)
FinishesNow(token, after) ==
    /\ token.position # -1
    /\ after.inHomeStretch
    /\ after.homeStretchPosition = HOME_STRETCH_LENGTH

\* anotherTurn granted for a 6 only
BonusTurnOnSix(diceValue, captured, after, gameOver) ==
    diceValue = 6 /\ ~gameOver

\* anotherTurn of moveToken
BonusTurn(diceValue, captured, after, gameOver) ==
    (diceValue = 6 \/ captured # {} \/ after.finished) /\ ~gameOver

\* the end of moveToken: the turn passes or not, the dice is cleared
EndMove(g3, playerId, tokenIndex, mov, token, captured, diceValue, anotherTurn) ==
    [g |-> [(IF anotherTurn THEN g3 ELSE nextTurn(g3)) EXCEPT !.lastDiceRoll = NoDice],
     r |-> [NoResult EXCEPT !.op = "moveToken", !.pid = playerId,
                            !.tokenIndex = tokenIndex, !.success = TRUE,
                            !.diceValue = diceValue, !.moved = TRUE,
                            !.seat = mov, !.before = token,
                            !.captured = captured,
                            !.anotherTurn = anotherTurn]]

TeamWon(g2, teamVictory) ==
    IF teamVictory # "null"
    THEN [g2 EXCEPT !.gameOver = TRUE,
                    !.winner = [kind |-> "team", id |-> 0, color |-> teamVictory]]
    ELSE g2

\* the win check declaring a solo winner one token early
WinCheckEarly(g2, cur) ==
    IF g2.teamMode THEN TeamWon(g2, checkTeamVictory(g2))
    ELSE IF g2.players[cur].finishedTokens >= TOKENS_PER_PLAYER - 1
    THEN [g2 EXCEPT !.gameOver = TRUE,
                    !.winner = [kind |-> "player", id |-> g2.players[cur].id,
                                color |-> g2.players[cur].color]]
    ELSE g2

\* the win check of moveToken: team victory in team mode, 4 finished tokens otherwise
WinCheck(g2, cur) ==
    IF g2.teamMode THEN TeamWon(g2, checkTeamVictory(g2))
    ELSE IF g2.players[cur].finishedTokens = TOKENS_PER_PLAYER
    THEN [g2 EXCEPT !.gameOver = TRUE,
                    !.winner = [kind |-> "player", id |-> g2.players[cur].id,
                                color |-> g2.players[cur].color]]
    ELSE g2

AfterWinCheck(g3, playerId, tokenIndex, mov, token, after, captured, diceValue) ==
    EndMove(g3, playerId, tokenIndex, mov, token, captured, diceValue,
            BonusTurn(diceValue, captured, after, g3.gameOver))

AfterCapture(g1, playerId, tokenIndex, cur, mov, token, after, cap) ==
    AfterWinCheck(WinCheck([g1 EXCEPT !.players = cap.players], cur),
                  playerId, tokenIndex, mov, token, after, cap.captured, g1.lastDiceRoll)

\* the match with the moved token stored and the finished count updated
PlaceToken(g, mov, tokenIndex, token, after) ==
    [g EXCEPT !.players[mov].tokens[tokenIndex + 1] = after,
              !.players[mov].finishedTokens = IF FinishesNow(token, after) THEN @ + 1 ELSE @]

CaptureAt(g1, mov, token, after) ==
    IF LandsOnTrack(token, after)
    THEN checkCapture(g1, mov, after.position)
    ELSE [players |-> g1.players, captured |-> {}]

AfterMovement(g1, playerId, tokenIndex, cur, mov, token, after) ==
    AfterCapture(g1, playerId, tokenIndex, cur, mov, token, after,
                 CaptureAt(g1, mov, token, after))

MoveOf(g, playerId, tokenIndex, cur, mov, token, after) ==
    AfterMovement(PlaceToken(g, mov, tokenIndex, token, after),
                  playerId, tokenIndex, cur, mov, token, after)

\* moveToken past its checks: cur is the current player's seat, mov the seat
\* of movingPlayer
AcceptedMove(g, playerId, tokenIndex, cur, mov) ==
    MoveOf(g, playerId, tokenIndex, cur, mov,
           g.players[mov].tokens[tokenIndex + 1],
           MovedToken(g.players[mov].tokens[tokenIndex + 1], g.players[mov].color,
                      g.lastDiceRoll))

\* moveToken without its movable-set check
moveTokenUnchecked(g, playerId, tokenIndex) ==
    IF ~g.gameStarted \/ g.gameOver \/ Len(g.players) = 0
    THEN [g |-> g, r |-> Fail("moveToken", playerId, tokenIndex, "Game not in progress")]
    ELSE IF g.players[g.currentPlayerIndex + 1].id # playerId
    THEN [g |-> g, r |-> Fail("moveToken", playerId, tokenIndex, "Not your turn")]
    ELSE IF g.lastDiceRoll = NoDice \/ tokenIndex >= TOKENS_PER_PLAYER
    THEN [g |-> g, r |-> Fail("moveToken", playerId, tokenIndex, "Roll dice first")]
    ELSE AcceptedMove(g, playerId, tokenIndex, g.currentPlayerIndex + 1,
                      TargetSeat(g, g.currentPlayerIndex + 1))

moveToken(g, playerId, tokenIndex) ==
    IF ~g.gameStarted \/ g.gameOver
    THEN [g |-> g, r |-> Fail("moveToken", playerId, tokenIndex, "Game not in progress")]
    ELSE IF Len(g.players) = 0
    THEN [g |-> g, r |-> Fail("moveToken", playerId, tokenIndex, "TypeError")]
    ELSE IF g.players[g.currentPlayerIndex + 1].id # playerId
    THEN [g |-> g, r |-> Fail("moveToken", playerId, tokenIndex, "Not your turn")]
    ELSE IF g.lastDiceRoll = NoDice
    THEN [g |-> g, r |-> Fail("moveToken", playerId, tokenIndex, "Roll dice first")]
    ELSE IF tokenIndex \notin getMovableTokens(g, g.currentPlayerIndex + 1, g.lastDiceRoll)
    THEN [g |-> g, r |-> Fail("moveToken", playerId, tokenIndex, "Cannot move this token")]
    ELSE AcceptedMove(g, playerId, tokenIndex, g.currentPlayerIndex + 1,
                      TargetSeat(g, g.currentPlayerIndex + 1))

-----------------------------------------------------------------------------
(* LudoGame: missed turns, elimination, automatic play *)

resetMissedTurns(g, playerId) ==
    IF playerId \in DOMAIN g.playerMissedTurns
    THEN [g EXCEPT !.playerMissedTurns[playerId] = 0]
    ELSE g

\* eliminatePlayer sending the tokens back to base as unfinished ones
OutTokensUnfinished(players, seat) ==
    IF seat = 0 THEN players
    ELSE [players EXCEPT ![seat].tokens =
             [i \in 1..TOKENS_PER_PLAYER |->
                 [@[i] EXCEPT !.position = -1, !.inHomeStretch = FALSE, !.finished = FALSE]]]

\* the forEach of eliminatePlayer over the tokens of the player at `seat`
OutTokens(players, seat) ==
    IF seat = 0 THEN players
    ELSE [players EXCEPT ![seat].tokens =
             [i \in 1..TOKENS_PER_PLAYER |->
                 [@[i] EXCEPT !.position = -1, !.inHomeStretch = FALSE, !.finished = TRUE]]]

\* eliminatePlayer counting the tokens it marks finished
eliminatePlayerAsFinished(g, playerId) ==
    IF playerId \in g.eliminatedPlayers THEN g
    ELSE [g EXCEPT !.eliminatedPlayers = @ \cup {playerId},
                   !.players =
                       [s \in 1..Len(g.players) |->
                           IF s = FindById(g, playerId)
                           THEN [OutTokens(g.players, s)[s] EXCEPT
                                     !.finishedTokens = TOKENS_PER_PLAYER]
                           ELSE g.players[s]]]

eliminatePlayer(g, playerId) ==
    IF playerId \in g.eliminatedPlayers THEN g
    ELSE [g EXCEPT !.eliminatedPlayers = @ \cup {playerId},
                   !.players = OutTokens(@, FindById(g, playerId))]

Counted(g1, playerId) ==
    IF g1.playerMissedTurns[playerId] >= MISSED_TURN_LIMIT
    THEN [g |-> eliminatePlayer(g1, playerId), counted |-> TRUE, eliminated |-> TRUE]
    ELSE [g |-> g1, counted |-> TRUE, eliminated |-> FALSE]

\* missed turns tracked for robots too
IsAnySeat(g, seat) == seat # 0

IsHumanSeat(g, seat) == seat # 0 /\ ~g.players[seat].isRobot

\* the match after the call, whether a missed turn was counted, and whether
\* the call eliminated the player
incrementMissedTurns(g, playerId) ==
    IF ~IsHumanSeat(g, FindById(g, playerId))
    THEN [g |-> g, counted |-> FALSE, eliminated |-> FALSE]
    ELSE Counted([g EXCEPT !.playerMissedTurns[playerId] = @ + 1], playerId)

autoRollDice(g, playerId, diceValue) == rollDice(g, playerId, diceValue)

AutoMoveWith(g, playerId, movable) ==
    IF movable = {}
    THEN [g |-> nextTurn([g EXCEPT !.lastDiceRoll = NoDice]),
          r |-> [NoResult EXCEPT !.op = "autoMoveToken", !.pid = playerId,
                                 !.success = TRUE, !.noMove = TRUE]]
    ELSE moveToken(g, playerId, Min(movable))

AutoMoveOf(g, playerId, seat) ==
    IF seat = 0 \/ g.lastDiceRoll = NoDice
    THEN [g |-> g, r |-> Fail("autoMoveToken", playerId, -1, "")]
    ELSE AutoMoveWith(g, playerId, getMovableTokens(g, seat, g.lastDiceRoll))

autoMoveToken(g, playerId) == AutoMoveOf(g, playerId, FindById(g, playerId))

-----------------------------------------------------------------------------
(* The turn timer's timeout: handleTimerTimeout of the socket handlers.     *)
(* `timer` tells whether the function leaves a timer running, `robot`       *)
(* whether it ends with a call of checkAndProcessRobotTurn; `roomThere` is  *)
(* what startRoomTimer finds in the room registry.                          *)

TimeoutResult(pid, roll, mv, counted, eliminated) ==
    [mv EXCEPT !.op = "handleTimerTimeout", !.pid = pid, !.success = TRUE,
               !.error = roll.error,
               !.rolled = roll.rolled, !.diceValue = roll.diceValue,
               !.canMove = roll.canMove, !.turnSkipped = roll.turnSkipped,
               !.movableTokens = roll.movableTokens,
               !.missed = counted, !.eliminated = eliminated]

MissedCounted(pid, roll, mv, inc, roomThere) ==
    [g |-> inc.g, timer |-> roomThere, robot |-> TRUE,
     r |-> TimeoutResult(pid, roll, mv, inc.counted, inc.eliminated)]

\* the tail of handleTimerTimeout: increment missed turns, start the next timer
CountMissed(gx, pid, roll, mv, roomThere) ==
    MissedCounted(pid, roll, mv, incrementMissedTurns(gx, pid), roomThere)

AfterAutoMove(pid, roll, mv, roomThere) ==
    IF ~(mv.r.success /\ ~mv.r.noMove)
    THEN CountMissed(mv.g, pid, roll, mv.r, roomThere)
    ELSE IF mv.g.gameOver
    THEN [g |-> mv.g, timer |-> FALSE, robot |-> FALSE,
          r |-> TimeoutResult(pid, roll, mv.r, FALSE, FALSE)]
    ELSE IF mv.r.anotherTurn
    THEN [g |-> mv.g, timer |-> roomThere, robot |-> FALSE,
          r |-> TimeoutResult(pid, roll, mv.r, FALSE, FALSE)]
    ELSE CountMissed(mv.g, pid, roll, mv.r, roomThere)

AfterAutoRoll(pid, roll, roomThere) ==
    IF ~roll.r.canMove
    THEN CountMissed(roll.g, pid, roll.r, NoResult, roomThere)
    ELSE AfterAutoMove(pid, roll.r, autoMoveToken(roll.g, pid), roomThere)

\* the timeout without its test of the eliminated set
TimeoutOfAnyone(g, pid, diceValue, roomThere) ==
    AfterAutoRoll(pid, autoRollDice(g, pid, diceValue), roomThere)

TimeoutOf(g, pid, diceValue, roomThere) ==
    IF isPlayerEliminated(g, pid)
    THEN [g |-> nextTurn(g), timer |-> roomThere, robot |-> FALSE,
          r |-> [NoResult EXCEPT !.op = "handleTimerTimeout", !.pid = pid,
                                 !.success = TRUE, !.error = "eliminated"]]
    ELSE AfterAutoRoll(pid, autoRollDice(g, pid, diceValue), roomThere)

handleTimerTimeout(g, diceValue, roomThere) ==
    IF Len(g.players) = 0
    THEN [g |-> g, timer |-> FALSE, robot |-> FALSE,
          r |-> Fail("handleTimerTimeout", 0, -1, "TypeError")]
    ELSE TimeoutOf(g, g.players[g.currentPlayerIndex + 1].id, diceValue, roomThere)

-----------------------------------------------------------------------------
(* The robots' turns: checkAndProcessRobotTurn of the socket handlers.  A   *)
(* call that finds a robot on turn waits 1.5 s, rolls, waits 1 s and moves; *)
(* rt.think[id] and rt.move[id] count the calls waiting before the roll and *)
(* before the move of robot id.  The calls the function schedules 500 ms    *)
(* ahead are made at once.                                                  *)

NoRobotTurns == [think |-> [id \in RobotIds |-> 0], move |-> [id \in RobotIds |-> 0]]

Waiting(f) == f[ROBOT_BASE + 1] + f[ROBOT_BASE + 2] + f[ROBOT_BASE + 3] + f[ROBOT_BASE + 4]

\* the synchronous part of a call: it returns unless a robot is on turn
checkAndProcessRobotTurn(rt, g, roomThere) ==
    IF ~roomThere \/ ~g.gameStarted \/ g.gameOver \/ Len(g.players) = 0 THEN rt
    ELSE IF ~g.players[g.currentPlayerIndex + 1].isRobot THEN rt
    ELSE IF Waiting(rt.think) + Waiting(rt.move) >= MaxRobotCalls THEN rt
    ELSE [rt EXCEPT !.think[g.players[g.currentPlayerIndex + 1].id] = @ + 1]

\* the re-check after a wait
StillOnTurn(g, id) ==
    /\ g.gameStarted
    /\ ~g.gameOver
    /\ Len(g.players) > 0
    /\ g.players[g.currentPlayerIndex + 1].id = id

GaveUp(g, rt, timer, id) ==
    [g |-> g, rt |-> rt, timer |-> timer,
     r |-> Fail("checkAndProcessRobotTurn", id, -1, "")]

\* step 2 of the call, after the roll
RobotRolled(rt, id, roll, roomThere) ==
    IF roll.r.turnSkipped \/ ~roll.r.canMove
    THEN [g |-> roll.g, rt |-> checkAndProcessRobotTurn(rt, roll.g, roomThere),
          timer |-> roomThere, r |-> roll.r]
    ELSE [g |-> roll.g, rt |-> [rt EXCEPT !.move[id] = @ + 1], timer |-> FALSE, r |-> roll.r]

robotRoll(g, rt, timer, id, diceValue, roomThere) ==
    IF ~StillOnTurn(g, id) THEN GaveUp(g, rt, timer, id)
    ELSE RobotRolled(rt, id, autoRollDice(g, id, diceValue), roomThere)

\* step 3 of the call, after the move
RobotMoved(rt, timer, mv, roomThere) ==
    IF mv.r.moved /\ mv.g.gameOver
    THEN [g |-> mv.g, rt |-> rt, timer |-> timer, r |-> mv.r]
    ELSE [g |-> mv.g, rt |-> checkAndProcessRobotTurn(rt, mv.g, roomThere),
          timer |-> roomThere, r |-> mv.r]

robotMove(g, rt, timer, id, roomThere) ==
    IF ~StillOnTurn(g, id) THEN GaveUp(g, rt, timer, id)
    ELSE RobotMoved(rt, timer, autoMoveToken(g, id), roomThere)

-----------------------------------------------------------------------------
(* The room: one room of GameStateManager and the socket handlers on it.    *)
(* The creator of the room is human 1: the createRoom handler builds the    *)
(* match and joins its creator at once.  The handlers pass the creator's id *)
(* to createRoom and compare metadata.creatorId with the requester on       *)
(* addRobot and startGame: only the creator adds robots and starts.         *)

CreatorId == 1

Init ==
    /\ \E teamMode \in BOOLEAN : game = addPlayer(NewGame(teamMode), CreatorId).g
    /\ playerRooms = {CreatorId}
    /\ roomExists = TRUE
    /\ roomTimer = FALSE
    /\ robotTurns = NoRobotTurns
    /\ last = NoResult
    /\ steps = MaxSteps

Served == steps > 0 /\ steps' = steps - 1

\* socket.on('joinRoom'): a newcomer to a started or full room becomes a spectator
JoinRoom(id) ==
    /\ Served
    /\ \E res \in {IF ~roomExists
                   THEN [g |-> game, r |-> Fail("joinRoom", id, -1, "Room not found")]
                   ELSE IF (game.gameStarted \/ Len(game.players) >= 4) /\ FindById(game, id) = 0
                   THEN [g |-> game,
                         r |-> [NoResult EXCEPT !.op = "addSpectator", !.pid = id,
                                                !.success = TRUE]]
                   ELSE addPlayer(game, id)} :
        /\ game' = res.g
        /\ last' = res.r
        /\ playerRooms' = IF res.r.op = "addPlayer" /\ res.r.success
                          THEN playerRooms \cup {id} ELSE playerRooms
    /\ UNCHANGED <<roomExists, roomTimer, robotTurns>>

\* socket.on('addRobot'), asked by the creator
AddRobot ==
    /\ Served
    /\ CreatorId \in playerRooms
    /\ \E res \in {addRobot(game)} :
        /\ game' = res.g
        /\ last' = res.r
    /\ UNCHANGED <<playerRooms, roomExists, roomTimer, robotTurns>>

\* socket.on('leaveRoom') and GameStateManager.leaveRoom
LeaveRoom(id) ==
    /\ Served
    /\ id \in playerRooms
    /\ \E res \in {removePlayer(game, id)} :
        /\ game' = res.g
        /\ last' = res.r
        /\ roomExists' = (roomExists /\ Len(res.g.players) # 0)
    /\ playerRooms' = playerRooms \ {id}
    /\ UNCHANGED <<roomTimer, robotTurns>>

\* socket.on('startGame'), asked by the creator
StartGame ==
    /\ Served
    /\ CreatorId \in playerRooms
    /\ \E res \in {startGame(game)} :
        /\ game' = res.g
        /\ last' = res.r
        /\ roomTimer' = IF res.r.success THEN TRUE ELSE roomTimer
        /\ robotTurns' = IF res.r.success
                         THEN checkAndProcessRobotTurn(robotTurns, res.g, roomExists)
                         ELSE robotTurns
    /\ UNCHANGED <<playerRooms, roomExists>>

\* socket.on('rollDice'); the dice value is Math.random's
RollDice(id) ==
    /\ Served
    /\ id \in playerRooms
    /\ \E diceValue \in DiceValues :
        \E res \in {rollDice(resetMissedTurns(game, id), id, diceValue)} :
            /\ game' = res.g
            /\ last' = res.r
            /\ roomTimer' = IF res.r.success THEN TRUE ELSE roomTimer
            /\ robotTurns' = IF res.r.success
                             THEN checkAndProcessRobotTurn(robotTurns, res.g, roomExists)
                             ELSE robotTurns
    /\ UNCHANGED <<playerRooms, roomExists>>

\* socket.on('moveToken')
MoveToken(id, tokenIndex) ==
    /\ Served
    /\ id \in playerRooms
    /\ \E res \in {moveToken(game, id, tokenIndex)} :
        /\ game' = res.g
        /\ last' = res.r
        /\ roomTimer' = IF res.r.success THEN ~res.g.gameOver ELSE roomTimer
        /\ robotTurns' = IF res.r.success
                         THEN checkAndProcessRobotTurn(robotTurns, res.g, roomExists)
                         ELSE robotTurns
    /\ UNCHANGED <<playerRooms, roomExists>>

\* the interval callback of startRoomTimer when the time is up
Timeout ==
    /\ Served
    /\ roomTimer
    /\ \E diceValue \in DiceValues :
        \E res \in {handleTimerTimeout(game, diceValue, roomExists)} :
            /\ game' = res.g
            /\ last' = res.r
            /\ roomTimer' = res.timer
            /\ robotTurns' = IF res.robot
                             THEN checkAndProcessRobotTurn(robotTurns, res.g, roomExists)
                             ELSE robotTurns
    /\ UNCHANGED <<playerRooms, roomExists>>

\* checkAndProcessRobotTurn after its first wait: the robot rolls
RobotRoll(id) ==
    /\ Served
    /\ robotTurns.think[id] > 0
    /\ \E diceValue \in DiceValues :
        \E res \in {robotRoll(game, [robotTurns EXCEPT !.think[id] = @ - 1], roomTimer,
                              id, diceValue, roomExists)} :
            /\ game' = res.g
            /\ last' = res.r
            /\ roomTimer' = res.timer
            /\ robotTurns' = res.rt
    /\ UNCHANGED <<playerRooms, roomExists>>

\* checkAndProcessRobotTurn after its second wait: the robot moves
RobotMove(id) ==
    /\ Served
    /\ robotTurns.move[id] > 0
    /\ \E res \in {robotMove(game, [robotTurns EXCEPT !.move[id] = @ - 1], roomTimer,
                              id, roomExists)} :
        /\ game' = res.g
        /\ last' = res.r
        /\ roomTimer' = res.timer
        /\ robotTurns' = res.rt
    /\ UNCHANGED <<playerRooms, roomExists>>

-----------------------------------------------------------------------------
(* Mid-game positions.  A match needs dozens of turns to bring a token home, *)
(* so the exploration also starts from positions of a match in progress:     *)
(* each is a position the handlers above lead to.  Seats are in join order   *)
(* (creator, second human, robots), colours as addPlayer/addRobot give them. *)

T2 ==
    <<[id |-> 1, color |-> "red", isRobot |-> FALSE],
      [id |-> 2, color |-> "yellow", isRobot |-> FALSE]>>

T4 ==
    T2 \o <<[id |-> ROBOT_BASE + 1, color |-> "blue", isRobot |-> TRUE],
            [id |-> ROBOT_BASE + 2, color |-> "green", isRobot |-> TRUE]>>

BaseToken == Token(-1, FALSE, -1, FALSE)

\* squares a token of `color` has travelled when it stands on square q
Dist(color, q) == (q + BOARD_SIZE - START_POSITIONS[color]) % BOARD_SIZE

\* the last square of its lap on which a token rests (the next one is the home entrance)
LastLapDist == Dist("red", HOME_ENTRANCE["red"]) - 1

OnTrack(color, r) == Token((START_POSITIONS[color] + r) % BOARD_SIZE, FALSE, -1, FALSE)

\* a token of `color` on square q, or in base if the colour never rests on q
AtSquare(color, q) ==
    IF Dist(color, q % BOARD_SIZE) <= LastLapDist
    THEN Token(q % BOARD_SIZE, FALSE, -1, FALSE)
    ELSE BaseToken

\* a token in the home stretch (h = 5: finished); position keeps the last track square
InStretch(color, h) ==
    Token((HOME_ENTRANCE[color] + BOARD_SIZE - 1) % BOARD_SIZE, TRUE, h, h = HOME_STRETCH_LENGTH)

\* a token of an eliminated player
OutToken(token) == [token EXCEPT !.position = -1, !.inHomeStretch = FALSE, !.finished = TRUE]

CountFinished(tokens) == Cardinality({i \in 1..TOKENS_PER_PLAYER : tokens[i].finished})

\* a started match: toks[s] are the tokens of seat s, fin[s] its finishedTokens
MidGame(table, teamMode, cur, toks, fin, dice, missed, elim) ==
    [players |-> [s \in 1..Len(table) |->
                     Player(table[s].id, table[s].color, toks[s], fin[s], table[s].isRobot)],
     currentPlayerIndex |-> cur - 1,
     gameStarted |-> TRUE,
     gameOver |-> FALSE,
     winner |-> NoWinner,
     lastDiceRoll |-> dice,
     consecutiveSixes |-> IF dice = 6 THEN 1 ELSE 0,
     playerMissedTurns |-> [id \in PlayerIds |-> IF id \in DOMAIN missed THEN missed[id] ELSE 0],
     eliminatedPlayers |-> elim,
     teamMode |-> teamMode,
     teams |-> IF teamMode
               THEN initializeTeams([players |-> table, teams |-> [team1 |-> {}, team2 |-> {}]])
               ELSE [team1 |-> {}, team2 |-> {}]]

NoMissed == [id \in {1, 2} |-> 0]

\* where the other seats stand, in squares ahead of the focus token: teammates
\* may share a square, opponents never share one that is not safe
Ahead(s, n, teamMode) ==
    IF n = 2 THEN 2
    ELSE IF teamMode THEN (IF s <= 2 THEN 2 ELSE 4)
    ELSE s + 1

\* a human moves any token; a robot always moves its first movable token, so
\* its tokens leave base in index order, one at a time
FocusTokens(seat, r) ==
    IF seat.isRobot
    THEN <<InStretch(seat.color, r % HOME_STRETCH_LENGTH), OnTrack(seat.color, r),
           BaseToken, BaseToken>>
    ELSE <<OnTrack(seat.color, r), BaseToken,
           InStretch(seat.color, r % HOME_STRETCH_LENGTH),
           InStretch(seat.color, HOME_STRETCH_LENGTH)>>

OtherTokens(seat, q) ==
    IF seat.isRobot
    THEN <<AtSquare(seat.color, q), BaseToken, BaseToken, BaseToken>>
    ELSE <<AtSquare(seat.color, q), AtSquare(seat.color, q), BaseToken,
           InStretch(seat.color, 2)>>

TrackTokens(table, teamMode, f, r) ==
    [s \in 1..Len(table) |->
        IF s = f THEN FocusTokens(table[s], r)
        ELSE OtherTokens(table[s],
                         START_POSITIONS[table[f].color] + r + Ahead(s, Len(table), teamMode))]

FinishedOf(toks) == [s \in DOMAIN toks |-> CountFinished(toks[s])]

\* a human on turn has rolled and is about to move; a robot on turn is about
\* to roll, or has rolled and is about to move
DicePending(table, f, dice) == (dice = NoDice) => table[f].isRobot

\* 4-player matches with the token of the player on turn anywhere on its lap
LapChoices ==
    {x \in {T4} \X {FALSE} \X (1..4) \X (0..LastLapDist) \X (0..6) :
        DicePending(x[1], x[3], x[5])}

\* 2-player and team matches with that token near the start, the middle and
\* the end of its lap
SomeLapDists == {1, 20, 45}

TableChoices ==
    {x \in {T2, T4} \X BOOLEAN \X (1..4) \X SomeLapDists \X (0..6) :
        /\ x[3] <= Len(x[1])
        /\ DicePending(x[1], x[3], x[5])}

\* the current player has a token on its lap, the others stand ahead of it
TrackGames ==
    {MidGame(x[1], x[2], x[3], TrackTokens(x[1], x[2], x[3], x[4]),
             FinishedOf(TrackTokens(x[1], x[2], x[3], x[4])), x[5], NoMissed, {}) :
        x \in LapChoices \cup TableChoices}

\* the current player is one move from its fourth finished token, or (team
\* mode) has finished and plays the teammate's tokens; the others stand 12
\* squares into their lap, where no last token of a lap stands
LastToken(color, k) == IF k = 1 THEN InStretch(color, 3) ELSE OnTrack(color, LastLapDist)

EndTokens(table, f, k, mateNear) ==
    [s \in 1..Len(table) |->
        IF s = f
        THEN <<InStretch(table[s].color, 5), InStretch(table[s].color, 5),
               InStretch(table[s].color, 5),
               IF k = 0 THEN InStretch(table[s].color, 5) ELSE LastToken(table[s].color, k)>>
        ELSE IF s <= 2 /\ mateNear
        THEN <<InStretch(table[s].color, 5), InStretch(table[s].color, 5),
               InStretch(table[s].color, 5), InStretch(table[s].color, 4)>>
        ELSE IF table[s].isRobot
        THEN <<OnTrack(table[s].color, 12), BaseToken, BaseToken, BaseToken>>
        ELSE <<OnTrack(table[s].color, 12), BaseToken, InStretch(table[s].color, 3),
               InStretch(table[s].color, 5)>>]

EndGames ==
    {MidGame(table, teamMode, f, EndTokens(table, f, k, mateNear),
             FinishedOf(EndTokens(table, f, k, mateNear)), NoDice, NoMissed, {}) :
        <<table, teamMode, f, k, mateNear>> \in
            {x \in {T2, T4} \X BOOLEAN \X (1..2) \X (0..2) \X BOOLEAN :
                /\ x[4] = 0 => (x[2] /\ Len(x[1]) = 4)
                /\ x[5] => (x[2] /\ Len(x[1]) = 4)}}

\* the current player has rolled the value that brings its last token home;
\* in a team match the teammate may have finished already
LastMoveTokens(table, f, k, mateDone) ==
    [s \in 1..Len(table) |->
        IF s # f /\ s <= 2 /\ mateDone
        THEN <<InStretch(table[s].color, 5), InStretch(table[s].color, 5),
               InStretch(table[s].color, 5), InStretch(table[s].color, 5)>>
        ELSE EndTokens(table, f, k, FALSE)[s]]

LastMoveGames ==
    {MidGame(table, teamMode, f, LastMoveTokens(table, f, k, mateDone),
             FinishedOf(LastMoveTokens(table, f, k, mateDone)),
             IF k = 1 THEN 2 ELSE 6, NoMissed, {}) :
        <<table, teamMode, f, k, mateDone>> \in
            {x \in {T2, T4} \X BOOLEAN \X (1..2) \X (1..2) \X BOOLEAN :
                x[5] => (x[2] /\ Len(x[1]) = 4)}}

\* team matches where the current player has finished and the teammate has
\* a token two squares before the end of its lap
MateTokens(table, f) ==
    [s \in 1..Len(table) |->
        IF s = f
        THEN <<InStretch(table[s].color, 5), InStretch(table[s].color, 5),
               InStretch(table[s].color, 5), InStretch(table[s].color, 5)>>
        ELSE IF s <= 2
        THEN <<OnTrack(table[s].color, LastLapDist - 2), BaseToken,
               InStretch(table[s].color, 3), InStretch(table[s].color, 5)>>
        ELSE <<OnTrack(table[s].color, 10), BaseToken, BaseToken, BaseToken>>]

MateGames ==
    {MidGame(T4, TRUE, f, MateTokens(T4, f), FinishedOf(MateTokens(T4, f)),
             NoDice, NoMissed, {}) : f \in 1..2}

\* the current player has missed 4 turns, or the other human is eliminated
\* already, or the current player was eliminated by the timeout that rolled
\* a 6 it could not use (and so kept the turn)
StuckTokens(color, stuck) ==
    IF stuck = 0 THEN <<BaseToken, BaseToken, BaseToken, BaseToken>>
    ELSE IF stuck = 1
    THEN <<InStretch(color, 1), InStretch(color, 2), InStretch(color, 5), InStretch(color, 5)>>
    ELSE IF stuck = 2
    THEN <<InStretch(color, 5), InStretch(color, 5), InStretch(color, 5), InStretch(color, 5)>>
    ELSE <<OutToken(InStretch(color, 1)), OutToken(InStretch(color, 2)),
           OutToken(InStretch(color, 5)), OutToken(InStretch(color, 5))>>

ElimTokens(table, f, stuck, otherOut) ==
    [s \in 1..Len(table) |->
        IF s = f THEN StuckTokens(table[s].color, stuck)
        ELSE IF s <= 2 /\ otherOut
        THEN <<OutToken(BaseToken), OutToken(OnTrack(table[s].color, 7)),
               OutToken(InStretch(table[s].color, 2)), OutToken(InStretch(table[s].color, 5))>>
        ELSE <<OnTrack(table[s].color, 10), BaseToken, BaseToken, BaseToken>>]

\* eliminatePlayer leaves finishedTokens as it was
ElimFinished(table, f, stuck, otherOut) ==
    [s \in 1..Len(table) |->
        IF s # f /\ s <= 2 /\ otherOut THEN 1
        ELSE IF s = f /\ stuck = 3 THEN 2
        ELSE CountFinished(ElimTokens(table, f, stuck, otherOut)[s])]

ElimMissed(f, stuck, otherOut) ==
    [id \in {1, 2} |-> IF id = f
                       THEN (IF stuck = 3 THEN MISSED_TURN_LIMIT ELSE MISSED_TURN_LIMIT - 1)
                       ELSE IF otherOut THEN MISSED_TURN_LIMIT ELSE 0]

ElimGames ==
    {[MidGame(table, teamMode, f, ElimTokens(table, f, stuck, otherOut),
              ElimFinished(table, f, stuck, otherOut), NoDice,
              ElimMissed(f, stuck, otherOut),
              (IF otherOut THEN {3 - f} ELSE {}) \cup (IF stuck = 3 THEN {f} ELSE {}))
         EXCEPT !.consecutiveSixes = IF stuck = 3 THEN 1 ELSE 0] :
        <<table, teamMode, f, stuck, otherOut>> \in
            {x \in {T2, T4} \X BOOLEAN \X (1..2) \X (0..3) \X BOOLEAN :
                /\ x[4] = 2 => (x[2] /\ Len(x[1]) = 4)
                /\ x[4] = 3 => ~x[5]}}

\* the current player has rolled two sixes in a row and moved with each: the
\* first took a token out of base, the second moved it on
SixTokens(table, f) ==
    [s \in 1..Len(table) |->
        IF s = f THEN <<OnTrack(table[s].color, 6), BaseToken, BaseToken, BaseToken>>
        ELSE <<OnTrack(table[s].color, 10), BaseToken, BaseToken, BaseToken>>]

SixGames ==
    {[MidGame(table, teamMode, f, SixTokens(table, f), FinishedOf(SixTokens(table, f)),
              NoDice, NoMissed, {})
         EXCEPT !.consecutiveSixes = 2] :
        <<table, teamMode, f>> \in
            {x \in {T2, T4} \X BOOLEAN \X (1..4) : x[3] <= Len(x[1])}}

\* a robot has rolled: its call waits before the move, the timer is cleared
RobotToMove(g) ==
    g.players[g.currentPlayerIndex + 1].isRobot /\ g.lastDiceRoll # NoDice

InitMid ==
    /\ \/ game \in TrackGames /\ steps = MoveSteps
       \/ game \in EndGames /\ steps = MaxMidSteps
       \/ game \in ElimGames /\ steps = MaxMidSteps
       \/ game \in SixGames /\ steps = MaxMidSteps
       \/ game \in LastMoveGames /\ steps = MaxMidSteps
       \/ game \in MateGames /\ steps = MaxMidSteps
    /\ playerRooms = {1, 2}
    /\ roomExists = TRUE
    /\ roomTimer = ~RobotToMove(game)
    /\ robotTurns = IF RobotToMove(game)
                    THEN [NoRobotTurns EXCEPT !.move[game.players[game.currentPlayerIndex + 1].id] = 1]
                    ELSE checkAndProcessRobotTurn(NoRobotTurns, game, TRUE)
    /\ last = NoResult

Next ==
    \/ \E id \in HumanIds : JoinRoom(id)
    \/ AddRobot
    \/ \E id \in HumanIds : LeaveRoom(id)
    \/ StartGame
    \/ \E id \in HumanIds : RollDice(id)
    \/ \E id \in HumanIds, tokenIndex \in TokenIndexInputs : MoveToken(id, tokenIndex)
    \/ Timeout
    \/ \E id \in RobotIds : RobotRoll(id)
    \/ \E id \in RobotIds : RobotMove(id)

Spec == Init /\ [][Next]_vars

SpecMid == InitMid /\ [][Next]_vars

SpecAll == (Init \/ InitMid) /\ [][Next]_vars

-----------------------------------------------------------------------------
(* Properties.  `game` is the match before a step, `game'` the match after  *)
(* it, and last' tells which entry point the step ran and what it returned. *)

CurSeat(g) == g.currentPlayerIndex + 1

\* the id of the current player, 0 when the turn pointer designates nobody
CurId(g) == IF CurSeat(g) \in 1..Len(g.players) THEN g.players[CurSeat(g)].id ELSE 0

InProgress(g) == g.gameStarted /\ ~g.gameOver

TurnState(g) ==
    <<g.players, g.currentPlayerIndex, g.lastDiceRoll, g.consecutiveSixes, g.gameOver, g.winner>>

\* the step moved a token, and the match after it still shows the move
Moves == last'.moved /\ ~last'.eliminated

\* the dice value a move of this step used
DiceUsed == IF last'.op = "moveToken" THEN game.lastDiceRoll ELSE last'.diceValue

TokenBefore == game.players[last'.seat].tokens[last'.tokenIndex + 1]

TokenAfter == game'.players[last'.seat].tokens[last'.tokenIndex + 1]

ColorMoved == game.players[last'.seat].color

\* the token the last step moved, as it is now
TokenNow == game.players[last.seat].tokens[last.tokenIndex + 1]

Moved == last.moved /\ ~last.eliminated

\* C1: a rollDice or moveToken call by a player who is not the current
\* player, or on a match that is not started or is over, is rejected and
\* leaves players, tokens, currentPlayerIndex, lastDiceRoll, consecutiveSixes,
\* gameOver and winner as they were.
C1_OutOfTurnRejected ==
    [][(/\ last'.op \in {"rollDice", "moveToken"}
        /\ (~InProgress(game) \/ CurId(game) # last'.pid))
       => (~last'.success /\ TurnState(game') = TurnState(game))]_vars

C1_Witness ==
    /\ last.op = "moveToken"
    /\ last.error = "Not your turn"
    /\ game.lastDiceRoll # NoDice
    /\ InProgress(game)

\* C2: a moveToken call by the current player is rejected without any
\* mutation when no dice value is pending or when tokenIndex is not in the
\* movable set (an out-of-range index included); the only token a step moves
\* is one of the movable set.
C2_OnlyMovableMoved ==
    [][/\ (/\ last'.op = "moveToken"
           /\ InProgress(game)
           /\ CurId(game) = last'.pid
           /\ \/ game.lastDiceRoll = NoDice
              \/ last'.tokenIndex \notin
                     getMovableTokens(game, CurSeat(game), game.lastDiceRoll))
          => (~last'.success /\ game' = game)
       /\ (/\ last'.op \in {"rollDice", "moveToken", "autoMoveToken", "handleTimerTimeout",
                         "checkAndProcessRobotTurn"}
           /\ ~last'.eliminated)
          => \A s \in 1..Len(game.players), i \in 0..(TOKENS_PER_PLAYER - 1) :
                (/\ game'.players[s].tokens[i + 1] # game.players[s].tokens[i + 1]
                 /\ <<s, i>> \notin last'.captured)
                => /\ last'.moved
                   /\ s = last'.seat
                   /\ i = last'.tokenIndex
                   /\ i \in getMovableTokens(game, CurSeat(game), DiceUsed)]_vars

C2_Witness ==
    /\ last.op = "moveToken"
    /\ last.error = "Cannot move this token"
    /\ last.tokenIndex = TOKENS_PER_PLAYER

\* C3: once a dice value is pending it is not replaced before a move: a
\* further rollDice, or the auto-roll of a timeout, draws no new value.
C3_PendingDiceKept ==
    [][(last'.op \in {"rollDice", "handleTimerTimeout"} /\ game.lastDiceRoll # NoDice)
       => ~last'.rolled]_vars

\* C4: start takes effect at most once: a start of a started match is
\* rejected and leaves currentPlayerIndex, lastDiceRoll, consecutiveSixes and
\* the teams as they were.
C4_StartOnce ==
    [][(last'.op = "startGame" /\ game.gameStarted)
       => /\ ~last'.success
          /\ game'.currentPlayerIndex = game.currentPlayerIndex
          /\ game'.lastDiceRoll = game.lastDiceRoll
          /\ game'.consecutiveSixes = game.consecutiveSixes
          /\ game'.teams = game.teams]_vars

\* C5: addPlayer and addRobot are rejected without mutation when the match
\* has 4 players or is started; start is rejected when it has fewer than 2
\* players; a match never has more than 4 players and gets no player after
\* its start.
C5_Capacity ==
    [][/\ (last'.op \in {"addPlayer", "addRobot"}
           /\ (Len(game.players) >= 4 \/ game.gameStarted))
          => (~last'.success /\ game' = game)
       /\ (last'.op = "startGame" /\ Len(game.players) < 2)
          => (~last'.success /\ game' = game)
       /\ Len(game.players) <= 4
       /\ Len(game'.players) <= 4
       /\ game.gameStarted
          => /\ Len(game'.players) <= Len(game.players)
             /\ \A i \in 1..Len(game'.players) :
                   \E j \in 1..Len(game.players) : game'.players[i].id = game.players[j].id]_vars

C5_Witness ==
    /\ last.op = "addRobot"
    /\ last.error = "Game is full"
    /\ ~game.gameStarted
    /\ Len(game.players) = 4

\* the steps k of a move of d squares from p that stand on the home entrance of color
EntranceSteps(p, d, color) == {k \in 1..d : (p + k) % BOARD_SIZE = HOME_ENTRANCE[color]}

\* C6: a token on the track at p, of colour c, moved with dice d: if some k
\* in 1..d has (p + k) mod 52 = the home entrance of c, the token enters the
\* home stretch with homeStretchPosition d - k for the first such k and is
\* finished iff d - k = 5; otherwise it stays on the track at (p + d) mod 52.
C6_TrackMove ==
    [][(/\ Moves
        /\ TokenBefore.position # -1
        /\ ~TokenBefore.inHomeStretch
        /\ ~TokenBefore.finished)
       => IF EntranceSteps(TokenBefore.position, DiceUsed, ColorMoved) # {}
          THEN /\ TokenAfter.inHomeStretch
               /\ TokenAfter.homeStretchPosition =
                      DiceUsed - Min(EntranceSteps(TokenBefore.position, DiceUsed, ColorMoved))
               /\ TokenAfter.finished = (TokenAfter.homeStretchPosition = HOME_STRETCH_LENGTH)
          ELSE /\ ~TokenAfter.inHomeStretch
               /\ ~TokenAfter.finished
               /\ TokenAfter.position = (TokenBefore.position + DiceUsed) % BOARD_SIZE]_vars

C6_Witness ==
    /\ Moved
    /\ last.before.position # -1
    /\ ~last.before.inHomeStretch
    /\ TokenNow.inHomeStretch
    /\ TokenNow.homeStretchPosition = 3
    /\ game.players[last.seat].color = "green"

\* C7: a token in base is moved only with a 6 and lands exactly on the entry
\* offset of its own colour (red 0, green 13, yellow 26, blue 39), on the
\* track, not in the home stretch and not finished, whichever colour it has
\* and whoever controls it.
C7_LeavesBaseOnSix ==
    [][(Moves /\ TokenBefore.position = -1)
       => /\ DiceUsed = 6
          /\ TokenAfter.position = START_POSITIONS[ColorMoved]
          /\ ~TokenAfter.inHomeStretch
          /\ ~TokenAfter.finished]_vars

\* C8: a token in the home stretch at h is moved with d only if h + d <= 5;
\* after the move it is at h + d, and finished iff h + d = 5; the
\* homeStretchPosition of a token in the home stretch is always within 0..5.
C8_HomeStretchMove ==
    [][/\ (Moves /\ TokenBefore.inHomeStretch)
          => /\ TokenBefore.homeStretchPosition + DiceUsed <= HOME_STRETCH_LENGTH
             /\ TokenAfter.inHomeStretch
             /\ TokenAfter.homeStretchPosition = TokenBefore.homeStretchPosition + DiceUsed
             /\ TokenAfter.finished = (TokenAfter.homeStretchPosition = HOME_STRETCH_LENGTH)
       /\ \A s \in 1..Len(game'.players), i \in 1..TOKENS_PER_PLAYER :
             game'.players[s].tokens[i].inHomeStretch
             => game'.players[s].tokens[i].homeStretchPosition \in 0..HOME_STRETCH_LENGTH]_vars

C8_Witness ==
    /\ Moved
    /\ last.before.inHomeStretch
    /\ last.before.homeStretchPosition = 3
    /\ TokenNow.homeStretchPosition = HOME_STRETCH_LENGTH
    /\ TokenNow.finished

\* the movable set as the rule states it
RuleMovable(token, d) ==
    \/ token.position = -1 /\ d = 6
    \/ token.inHomeStretch /\ ~token.finished
         /\ token.homeStretchPosition + d <= HOME_STRETCH_LENGTH
    \/ token.position # -1 /\ ~token.inHomeStretch /\ ~token.finished

\* the seat whose tokens the last roll looked at
RolledFor == TargetSeat(game, FindById(game, last.pid))

\* a roll that computed the movable set (the third 6 in a row does not)
RollAnswered ==
    /\ last.op = "rollDice"
    /\ last.rolled
    /\ ~(last.turnSkipped /\ last.diceValue = 6)
    /\ FindById(game, last.pid) # 0

\* C9: a token is in the movable set iff (in base and d = 6) or (in the home
\* stretch and h + d <= 5) or (on the track and not finished); a finished
\* token is never in the movable set, one marked finished by elimination
\* included.
C9_MovableSet ==
    RollAnswered
    => /\ ~FinishedAt(game, RolledFor)
          => last.movableTokens =
                 {i \in 0..(TOKENS_PER_PLAYER - 1) :
                     RuleMovable(game.players[RolledFor].tokens[i + 1], last.diceValue)}
       /\ \A i \in last.movableTokens : ~game.players[RolledFor].tokens[i + 1].finished

\* the square a move of this step lands on, -1 when it lands off the track
LandingSquare == IF TokenAfter.inHomeStretch THEN -1 ELSE TokenAfter.position

\* the tokens this step sent back to base
SentToBase ==
    {<<s, i>> \in (1..Len(game.players)) \X (0..(TOKENS_PER_PLAYER - 1)) :
        /\ game.players[s].tokens[i + 1].position # -1
        /\ game'.players[s].tokens[i + 1].position = -1}

SameTeam(g, c1, c2) ==
    g.teamMode /\ (\E team \in {g.teams.team1, g.teams.team2} : {c1, c2} \subseteq team)

Opposing(g, s, mover) ==
    /\ g.players[s].id # g.players[mover].id
    /\ ~SameTeam(g, g.players[s].color, g.players[mover].color)

MoverColors == {game.players[CurSeat(game)].color, ColorMoved}

\* C11: no move captures a token of the mover's own colour, and in team mode
\* no move captures a token of the colour of the mover's teammate; the same
\* holds when a finished player moves a token of their teammate.
C11_NoFriendlyCapture ==
    [][Moves
       => \A c \in SentToBase : \A m \in MoverColors :
             /\ game.players[c[1]].color # m
             /\ ~SameTeam(game, game.players[c[1]].color, m)]_vars

C11_Witness ==
    /\ Moved
    /\ game.teamMode
    /\ TokenNow.position # -1
    /\ ~TokenNow.inHomeStretch
    /\ TokenNow.position \notin SAFE_POSITIONS
    /\ \E s \in 1..Len(game.players), i \in 1..TOKENS_PER_PLAYER :
          /\ s # last.seat
          /\ SameTeam(game, game.players[s].color, game.players[last.seat].color)
          /\ game.players[s].tokens[i].position = TokenNow.position
          /\ ~game.players[s].tokens[i].inHomeStretch
          /\ ~game.players[s].tokens[i].finished

\* the index of the next player after the current one, in circular order,
\* who is not eliminated; the current index when there is no such player
NextAlive(g) ==
    LET n == Len(g.players)
        at(k) == (g.currentPlayerIndex + k) % n
        alive == {k \in 1..(n - 1) : g.players[at(k) + 1].id \notin g.eliminatedPlayers}
    IN  IF alive = {} THEN g.currentPlayerIndex ELSE at(Min(alive))

\* the token moved in this step reached the end of its home stretch
FinishedInMove == TokenAfter.finished /\ ~TokenBefore.finished

\* the rule of the bonus turn, for the move of this step
BonusRule ==
    /\ ~game'.gameOver
    /\ (DiceUsed = 6 \/ SentToBase # {} \/ FinishedInMove)

\* C12: after a successful move with dice value d the dice is cleared, and
\* the same player keeps the turn (currentPlayerIndex unchanged) iff the match
\* is not over and (d = 6 or the move captured a token or the moved token
\* finished in this move); in every other case the turn advances to the next
\* player who is not eliminated.
C12_BonusTurn ==
    [][Moves
       => /\ game'.lastDiceRoll = NoDice
          /\ last'.anotherTurn = BonusRule
          /\ game'.currentPlayerIndex =
                 IF BonusRule THEN game.currentPlayerIndex ELSE NextAlive(game)]_vars

C12_Witness ==
    /\ Moved
    /\ last.diceValue # 6
    /\ last.captured # {}
    /\ ~TokenNow.finished
    /\ last.anotherTurn
    /\ ~game.gameOver
    /\ game.lastDiceRoll = NoDice
    /\ CurId(game) = last.pid

\* C13: when a roll is the third six in a row of the player on turn, no
\* token is moved with it: the dice value is cleared, the six-streak is reset
\* to 0 and the turn advances to the next player who is not eliminated.
C13_ThirdSix ==
    [][(last'.rolled /\ last'.diceValue = 6 /\ game.consecutiveSixes = 2)
       => /\ ~last'.moved
          /\ ~last'.canMove
          /\ \A s \in 1..Len(game.players) :
                game'.players[s].tokens # game.players[s].tokens
                => (last'.eliminated /\ game.players[s].id = last'.pid)
          /\ game'.lastDiceRoll = NoDice
          /\ game'.consecutiveSixes = 0
          /\ game'.currentPlayerIndex = NextAlive(game)]_vars

C13_Witness ==
    /\ last.op = "rollDice"
    /\ last.rolled
    /\ last.diceValue = 6
    /\ last.turnSkipped
    /\ game.consecutiveSixes = 0
    /\ game.lastDiceRoll = NoDice
    /\ CurId(game) # last.pid
    /\ \E i \in 1..TOKENS_PER_PLAYER :
          /\ game.players[FindById(game, last.pid)].tokens[i].position # -1
          /\ ~game.players[FindById(game, last.pid)].tokens[i].finished

\* this step drew the dice value d, which is not a third six in a row, and
\* the player on turn can move no token with it
RolledInVain(d) ==
    /\ last'.rolled
    /\ last'.diceValue = d
    /\ ~(d = 6 /\ game.consecutiveSixes = 2)
    /\ getMovableTokens(game, CurSeat(game), d) = {}

\* C14: when a roll of value d leaves the player on turn with an empty
\* movable set: if d is not 6 the turn passes at once to the next player, the
\* dice cleared; if d is 6 the same player stays on turn, the dice is cleared
\* for a new roll, and the six-streak is kept, not reset.
C14_NothingMovable ==
    [][\A d \in DiceValues :
          RolledInVain(d)
          => /\ ~last'.moved
             /\ game'.lastDiceRoll = NoDice
             /\ IF d = 6
                THEN /\ game'.currentPlayerIndex = game.currentPlayerIndex
                     /\ game'.consecutiveSixes = game.consecutiveSixes + 1
                     /\ game'.consecutiveSixes > 0
                     /\ ~last'.turnSkipped
                ELSE /\ game'.currentPlayerIndex = NextAlive(game)
                     /\ last'.turnSkipped]_vars

C14_Witness ==
    /\ last.op = "rollDice"
    /\ last.rolled
    /\ last.diceValue = 6
    /\ ~last.canMove
    /\ ~last.turnSkipped
    /\ CurId(game) = last.pid
    /\ game.lastDiceRoll = NoDice
    /\ game.consecutiveSixes > 0
    /\ \E s \in 1..Len(game.players) : s # CurSeat(game) /\ game.players[s].id \notin game.eliminatedPlayers

\* this step ran nextTurn: a roll that passed the turn, a move without a
\* bonus turn, or the timeout of a player already eliminated
Advances ==
    \/ last'.turnSkipped
    \/ last'.moved /\ ~last'.anotherTurn
    \/ last'.noMove
    \/ last'.op = "handleTimerTimeout" /\ last'.error = "eliminated"

\* the seats of the players who are not eliminated
AliveSeats(g) == {s \in 1..Len(g.players) : g.players[s].id \notin g.eliminatedPlayers}

\* the seats passed over when the pointer goes from seat a to seat b
Between(g, a, b) ==
    {s \in 1..Len(g.players) :
        (s - a) % Len(g.players) \in 1..(((b - a) % Len(g.players)) - 1)}

\* C15: turn advancement moves currentPlayerIndex to the next player, in
\* circular order, who is not eliminated, skipping the eliminated ones; if
\* all but one player are eliminated it resolves to that survivor whatever
\* the pointer was, and if every other player is eliminated the pointer is
\* left unchanged.
C15_NextTurn ==
    [][Advances
       => /\ game'.currentPlayerIndex = NextAlive(game)
          /\ CurSeat(game') # CurSeat(game)
             => /\ CurSeat(game') \in AliveSeats(game)
                /\ Between(game, CurSeat(game), CurSeat(game')) \cap AliveSeats(game) = {}
          /\ (\E s \in 1..Len(game.players) : AliveSeats(game) = {s})
             => AliveSeats(game) = {CurSeat(game')}
          /\ AliveSeats(game) \subseteq {CurSeat(game)}
             => CurSeat(game') = CurSeat(game)]_vars

C15_Witness ==
    /\ last.turnSkipped \/ (last.moved /\ ~last.anotherTurn)
    /\ Len(game.players) = 4
    /\ FindById(game, last.pid) # 0
    /\ game.players[(FindById(game, last.pid) % 4) + 1].id \in game.eliminatedPlayers
    /\ CurSeat(game) = ((FindById(game, last.pid) + 1) % 4) + 1
    /\ ~last.eliminated

\* the move of this step brings the finished count of the mover to 4
FourthFinished ==
    /\ last'.moved
    /\ game.players[last'.seat].finishedTokens < TOKENS_PER_PLAYER
    /\ game'.players[last'.seat].finishedTokens = TOKENS_PER_PLAYER

\* C16: in solo mode the match becomes over in exactly the move that brings
\* the finished count of the mover to 4, with that player as winner; once
\* the match is over, gameOver never becomes false again and the winner never
\* changes.
C16_SoloWin ==
    [][/\ ~game.teamMode
          => /\ (~game.gameOver /\ game'.gameOver) <=> (~game.gameOver /\ FourthFinished)
             /\ (~game.gameOver /\ game'.gameOver)
                => /\ game'.winner.kind = "player"
                   /\ game'.winner.id = game.players[last'.seat].id
                   /\ game'.winner.color = game.players[last'.seat].color
                   /\ last'.seat = CurSeat(game)
       /\ game.gameOver => (game'.gameOver /\ game'.winner = game.winner)
       /\ ~game'.gameOver => game'.winner = NoWinner]_vars

C16_Witness ==
    /\ ~game.teamMode
    /\ game.gameOver
    /\ last.op # "none"
    /\ ~last.moved
    /\ game.winner.kind = "player"
    /\ FindById(game, game.winner.id) # 0
    /\ game.players[FindById(game, game.winner.id)].finishedTokens = TOKENS_PER_PLAYER

\* every colour of `team` belongs to a player with all 4 tokens finished
AllHome(g, team) ==
    \A c \in team :
        \E s \in 1..Len(g.players) :
            g.players[s].color = c /\ g.players[s].finishedTokens = TOKENS_PER_PLAYER

\* C17: a match in team mode (2, 3 or 4 players) becomes over only in a
\* move after which every colour of one team belongs to a player with all 4
\* tokens finished, and that team is the winner; it does not become over
\* while each team still has a colour with fewer than 4 finished tokens, so
\* not while no player has 4.
C17_TeamWin ==
    [][(game.teamMode /\ ~game.gameOver /\ game'.gameOver)
       => /\ last'.moved
          /\ game'.winner.kind = "team"
          /\ \E name \in {"team1", "team2"} :
                /\ game'.winner.color = name
                /\ game'.teams[name] # {}
                /\ AllHome(game', game'.teams[name])
          /\ \E s \in 1..Len(game'.players) :
                game'.players[s].finishedTokens = TOKENS_PER_PLAYER]_vars

\* the player on turn has all 4 tokens finished and the player at seat m is
\* their teammate, with a token still to bring home
Controls(m) ==
    /\ game.teamMode
    /\ InProgress(game)
    /\ CurSeat(game) \in 1..Len(game.players)
    /\ game.players[CurSeat(game)].finishedTokens = TOKENS_PER_PLAYER
    /\ m # CurSeat(game)
    /\ SameTeam(game, game.players[m].color, game.players[CurSeat(game)].color)
    /\ \E i \in 1..TOKENS_PER_PLAYER : ~game.players[m].tokens[i].finished

\* where the rules put a token of `color` moved with dice value d
RuleMoved(token, color, d) ==
    IF token.position = -1
    THEN [token EXCEPT !.position = START_POSITIONS[color]]
    ELSE IF token.inHomeStretch
    THEN Token(token.position, TRUE, token.homeStretchPosition + d,
               token.homeStretchPosition + d = HOME_STRETCH_LENGTH)
    ELSE IF EntranceSteps(token.position, d, color) # {}
    THEN Token(token.position, TRUE, d - Min(EntranceSteps(token.position, d, color)),
               d - Min(EntranceSteps(token.position, d, color)) = HOME_STRETCH_LENGTH)
    ELSE [token EXCEPT !.position = (token.position + d) % BOARD_SIZE]

Struck ==
    {id \in HumanIds :
        /\ game.playerMissedTurns[id] < MISSED_TURN_LIMIT
        /\ game'.playerMissedTurns[id] >= MISSED_TURN_LIMIT}

\* C19: when the missed-turn counter of a human player reaches 5 through
\* timeouts, the player is added to the eliminated set and all 4 of their
\* tokens are reset to base and marked finished; the eliminated set never
\* shrinks, and an eliminated player never again becomes the current player
\* while another player who is not eliminated exists.
C19_Elimination ==
    [][/\ \A id \in Struck :
             /\ last'.op = "handleTimerTimeout"
             /\ id \in game'.eliminatedPlayers
             /\ \A s \in 1..Len(game'.players) :
                   game'.players[s].id = id
                   => \A i \in 1..TOKENS_PER_PLAYER :
                         /\ game'.players[s].tokens[i].position = -1
                         /\ ~game'.players[s].tokens[i].inHomeStretch
                         /\ game'.players[s].tokens[i].finished
       /\ game.eliminatedPlayers \subseteq game'.eliminatedPlayers
       /\ (/\ CurId(game') \in game'.eliminatedPlayers
           /\ AliveSeats(game') # {})
          => CurId(game) = CurId(game')]_vars

\* this step served a manual roll or move request of player id
ManualBy(id) == last'.op \in {"rollDice", "moveToken"} /\ last'.pid = id

\* C20: the missed-turn counter of a player is reset to zero exactly when a
\* manual roll or a manual move by that player is accepted: an accepted
\* manual rollDice resets it, an accepted manual moveToken resets it, and a
\* rejected request (wrong turn, match not in progress) leaves it unchanged.
C20_MissedReset ==
    [][\A id \in HumanIds :
          /\ (ManualBy(id) /\ last'.success) => game'.playerMissedTurns[id] = 0
          /\ (ManualBy(id) /\ ~last'.success)
             => game'.playerMissedTurns[id] = game.playerMissedTurns[id]
          /\ (game.playerMissedTurns[id] # 0 /\ game'.playerMissedTurns[id] = 0)
             => (ManualBy(id) /\ last'.success)]_vars

\* this step ran the timeout of a human player on turn who is not eliminated
TimeoutOfHuman(id) ==
    /\ last'.op = "handleTimerTimeout"
    /\ last'.pid = id
    /\ CurId(game) = id
    /\ ~game.players[CurSeat(game)].isRobot
    /\ id \notin game.eliminatedPlayers

\* C21: when the timeout runs for a human player on turn who is not
\* eliminated, the missed-turn counter of that player is incremented iff the
\* timeout cycle moved no token; a cycle that auto-moves a token does not
\* increment it.
C21_MissedCounted ==
    [][\A id \in HumanIds :
          TimeoutOfHuman(id)
          => game'.playerMissedTurns[id] =
                 IF last'.moved THEN game.playerMissedTurns[id]
                 ELSE game.playerMissedTurns[id] + 1]_vars

\* the distance to home the auto-play heuristic is stated with
FarAway == 1000

DistanceToHome(color, token) ==
    IF token.inHomeStretch THEN HOME_STRETCH_LENGTH - token.homeStretchPosition
    ELSE IF token.position = -1 THEN FarAway
    ELSE ((HOME_ENTRANCE[color] - token.position) % BOARD_SIZE) + HOME_STRETCH_LENGTH

\* the movable token of the player at `seat` that is closest to home, the
\* lowest index among equals
ClosestToHome(g, seat, movable) ==
    CHOOSE i \in movable :
        \A j \in movable :
            \/ DistanceToHome(g.players[seat].color, g.players[seat].tokens[i + 1])
                  < DistanceToHome(g.players[seat].color, g.players[seat].tokens[j + 1])
            \/ /\ DistanceToHome(g.players[seat].color, g.players[seat].tokens[i + 1])
                     = DistanceToHome(g.players[seat].color, g.players[seat].tokens[j + 1])
               /\ i <= j

\* this step moved a token by auto-play: in a timeout or on a robot's turn
AutoMoves ==
    /\ Moves
    /\ (last'.op = "handleTimerTimeout" \/ last'.pid \in RobotIds)

\* C22: auto-play moves, among the movable tokens for the dice value, the one
\* with the least distance to home (home stretch: 5 - homeStretchPosition;
\* base: a large constant; track: (home entrance - position) mod 52 + 5), the
\* lowest token index among equals.
C22_AutoPlayClosest ==
    [][AutoMoves
       => last'.tokenIndex =
              ClosestToHome(game, last'.seat,
                            getMovableTokens(game, CurSeat(game), DiceUsed))]_vars

\* C23: after any sequence of addPlayer, addRobot and removePlayer, every
\* player of the match has one of the four colours and no two players have
\* the same colour.
C23_ColoursUnique ==
    /\ \A s \in 1..Len(game.players) : game.players[s].color \in ColorSet
    /\ \A s, t \in 1..Len(game.players) :
          game.players[s].color = game.players[t].color => s = t

C23_Witness ==
    /\ last.op \in {"addPlayer", "addRobot"}
    /\ last.success
    /\ Len(game.players) >= 2
    /\ game.players[1].color = "yellow"
    /\ game.players[Len(game.players)].color = "red"

\* the first n seats hold the colours in the order of the colour list
InJoinOrder(g, n) == \A s \in 1..n : g.players[s].color = colors[s]

\* C24: with joins only, colours are given in a fixed order whether the
\* joiner is a human or a robot: the first joiner gets red, the second yellow
\* (the diagonal partner of red), the third blue and the fourth green.
C24_ColourOrder ==
    (/\ last.op \in {"addPlayer", "addRobot"}
     /\ last.success
     /\ InJoinOrder(game, Len(game.players) - 1))
    => InJoinOrder(game, Len(game.players))

C24_Witness ==
    /\ last.op = "addPlayer"
    /\ last.success
    /\ Len(game.players) = 4
    /\ InJoinOrder(game, 4)
    /\ game.players[2].isRobot
    /\ game.players[3].isRobot
    /\ ~game.players[4].isRobot

\* C25: once the match has started and has a player who is not eliminated,
\* currentPlayerIndex designates a player who is not eliminated after every
\* roll, move and timeout cycle, the cycle that eliminates a player included.
C25_CurrentAlive ==
    [][(/\ last'.op \in {"rollDice", "moveToken", "autoMoveToken", "handleTimerTimeout"}
        /\ game.gameStarted
        /\ CurId(game) \notin game.eliminatedPlayers
        /\ AliveSeats(game') # {})
       => CurId(game') \notin game'.eliminatedPlayers]_vars

\* C26: whenever the player designated by currentPlayerIndex becomes another
\* player, lastDiceRoll is null afterwards, whatever caused the change: a
\* turn advance after a roll or a move, a timeout, removePlayer shifting the
\* list of players, a repeated start.
C26_DiceClearedOnChange ==
    [][(game'.gameStarted /\ CurId(game') # CurId(game))
       => game'.lastDiceRoll = NoDice]_vars

\* the teams of a started team match as the rule fixes them
TeamsInOrder(g) ==
    /\ g.teams.team1 \cap g.teams.team2 = {}
    /\ \A s \in 1..Len(g.players) :
          g.players[s].color \in g.teams.team1 \cup g.teams.team2
    /\ (Len(g.players) = 4
         => {g.teams.team1, g.teams.team2} = {{"red", "yellow"}, {"blue", "green"}})
    /\ (Len(g.players) = 2
         => {g.teams.team1, g.teams.team2} =
                {{g.players[1].color}, {g.players[2].color}})

\* C27: after the start of a team match the two teams are disjoint sets of
\* colours and the colour of every player belongs to exactly one of them
\* (red + yellow against blue + green with 4 players, the colour of each
\* player as a team of its own with 2 players), and the teams do not change
\* for the rest of the match.
C27_TeamsFixed ==
    [][/\ (last'.op = "startGame" /\ last'.success /\ game'.teamMode /\ ~game.gameStarted)
          => TeamsInOrder(game')
       /\ (game.gameStarted /\ game.teamMode) => game'.teams = game.teams]_vars

\* C28: for every token, finished implies homeStretchPosition = 5, and a
\* finished token is never again changed by a move.
C28_FinishedAtEnd ==
    [][/\ \A s \in 1..Len(game'.players), i \in 1..TOKENS_PER_PLAYER :
             game'.players[s].tokens[i].finished
             => game'.players[s].tokens[i].homeStretchPosition = HOME_STRETCH_LENGTH
       /\ (Moves /\ TokenBefore.finished) => TokenAfter = TokenBefore]_vars

\* C29: a token never regresses from finished: once its finished flag is
\* true it stays true through every later roll, move, capture, timeout and
\* elimination, as long as its player is in the match.
C29_FinishedStays ==
    [][\A s \in 1..Len(game.players), t \in 1..Len(game'.players) :
          (/\ game.players[s].id = game'.players[t].id
           /\ game.players[s].color = game'.players[t].color)
          => \A i \in 1..TOKENS_PER_PLAYER :
                game.players[s].tokens[i].finished => game'.players[t].tokens[i].finished]_vars

C29_Witness ==
    /\ last.op = "handleTimerTimeout"
    /\ last.eliminated
    /\ FindById(game, last.pid) # 0
    /\ \E i \in 1..TOKENS_PER_PLAYER :
          /\ game.players[FindById(game, last.pid)].tokens[i].finished
          /\ game.players[FindById(game, last.pid)].tokens[i].homeStretchPosition
                 = HOME_STRETCH_LENGTH
          /\ game.players[FindById(game, last.pid)].tokens[i].position = -1

\* C30: for every player who is not eliminated, after every operation,
\* finishedTokens is within 0..4 and is the number of tokens of that player
\* whose finished flag is true.
C30_FinishedCount ==
    \A s \in AliveSeats(game) :
        /\ game.players[s].finishedTokens \in 0..TOKENS_PER_PLAYER
        /\ game.players[s].finishedTokens = CountFinished(game.players[s].tokens)

C30_Witness ==
    /\ Moved
    /\ last.seat \in AliveSeats(game)
    /\ ~last.before.finished
    /\ TokenNow.finished
    /\ ~last.before.inHomeStretch
    /\ game.players[last.seat].finishedTokens = 2
    /\ CountFinished(game.players[last.seat].tokens) = 2

\* the players this step adds to the eliminated set
NewlyEliminated == game'.eliminatedPlayers \ game.eliminatedPlayers

\* the tokens of a player that reached the end of the home stretch by moves
\* (eliminatePlayer leaves homeStretchPosition as it was)
BroughtHome(tokens) ==
    Cardinality({i \in 1..TOKENS_PER_PLAYER :
                    tokens[i].homeStretchPosition = HOME_STRETCH_LENGTH})

\* C31: elimination is not winning: the step that eliminates a player leaves
\* the finishedTokens of that player, gameOver and winner as they were; the
\* tokens elimination marks finished never count: the finishedTokens of every
\* player stays the number of tokens the player brought home, so an
\* eliminated player is not made the solo winner and adds nothing to a team
\* victory.
C31_EliminationNotWin ==
    [][/\ \A id \in NewlyEliminated :
             /\ game'.gameOver = game.gameOver
             /\ game'.winner = game.winner
             /\ Len(game'.players) = Len(game.players)
             /\ \A s \in 1..Len(game.players) :
                   game.players[s].id = id
                   => game'.players[s].finishedTokens = game.players[s].finishedTokens
       /\ \A s \in 1..Len(game'.players) :
             game'.players[s].id \in game'.eliminatedPlayers
             => game'.players[s].finishedTokens = BroughtHome(game'.players[s].tokens)
       /\ (~game.gameOver /\ game'.gameOver /\ game'.winner.kind = "player")
          => game'.winner.id \notin game'.eliminatedPlayers
       /\ (~game.gameOver /\ game'.gameOver /\ game'.winner.kind = "team")
          => \A s \in 1..Len(game'.players) :
                game'.players[s].finishedTokens = TOKENS_PER_PLAYER
                => BroughtHome(game'.players[s].tokens) = TOKENS_PER_PLAYER]_vars

C31_Witness ==
    /\ last.op = "handleTimerTimeout"
    /\ last.eliminated
    /\ FindById(game, last.pid) # 0
    /\ game.players[FindById(game, last.pid)].finishedTokens = 2
    /\ CountFinished(game.players[FindById(game, last.pid)].tokens) = TOKENS_PER_PLAYER
    /\ ~game.gameOver
    /\ game.winner = NoWinner

\* C32: after a player is eliminated none of their tokens is on the board
\* again: every token of an eliminated player stays in base and finished,
\* and no roll or move, by that player or by a teammate who controls the
\* tokens, changes it.
C32_EliminatedStayOut ==
    [][\A s \in 1..Len(game.players) :
          (/\ game.players[s].id \in game.eliminatedPlayers
           /\ Len(game'.players) = Len(game.players)
           /\ game'.players[s].id = game.players[s].id)
          => /\ game'.players[s].tokens = game.players[s].tokens
             /\ \A i \in 1..TOKENS_PER_PLAYER :
                   /\ game'.players[s].tokens[i].position = -1
                   /\ game'.players[s].tokens[i].finished]_vars

\* this step ran the timeout while the player on turn was eliminated
TimeoutOfEliminated ==
    /\ last'.op = "handleTimerTimeout"
    /\ CurId(game) # 0
    /\ CurId(game) \in game.eliminatedPlayers

\* C33: when the timeout runs while the player on turn is already
\* eliminated, it only advances the turn: no dice is rolled, no token is
\* moved, no missed-turn counter changes, and the pointer moves to the next
\* player who is not eliminated.
C33_TimeoutOfEliminated ==
    [][TimeoutOfEliminated
       => /\ ~last'.rolled
          /\ ~last'.moved
          /\ ~last'.missed
          /\ game'.players = game.players
          /\ game'.playerMissedTurns = game.playerMissedTurns
          /\ game'.eliminatedPlayers = game.eliminatedPlayers
          /\ game'.gameOver = game.gameOver
          /\ game'.winner = game.winner
          /\ game'.lastDiceRoll = NoDice
          /\ game'.currentPlayerIndex = NextAlive(game)
          /\ (AliveSeats(game) # {}) => CurSeat(game') \in AliveSeats(game)]_vars

C33_Witness ==
    /\ last.op = "handleTimerTimeout"
    /\ last.error = "eliminated"
    /\ last.pid \in game.eliminatedPlayers
    /\ ~last.rolled
    /\ CurId(game) # last.pid
    /\ CurId(game) \notin game.eliminatedPlayers
    /\ Len(game.players) = 4
    /\ game.lastDiceRoll = NoDice

\* this step ran the timeout handler or a step of the robots' turn
AutomaticStep ==
    \/ last'.op \in {"handleTimerTimeout", "checkAndProcessRobotTurn"}
    \/ last'.pid \in RobotIds

\* C34: once the match is over no turn timeout remains scheduled for its
\* room, whichever way the match ended (a human move, the auto-move of a
\* timeout, a robot move); on a match that is over the timeout handler and
\* the robot step neither roll nor move, count no missed turn and do not
\* advance the turn.
C34_NoTimerWhenOver ==
    [][/\ game'.gameOver => ~roomTimer'
       /\ (game.gameOver /\ AutomaticStep)
          => /\ ~last'.rolled
             /\ ~last'.moved
             /\ ~last'.missed
             /\ game' = game]_vars

\* the token stands on the main track
OnMainTrack(token) == token.position # -1 /\ ~token.inHomeStretch /\ ~token.finished

\* forward distance from the entry offset of `color` to square q
LapDistance(color, q) == (q - START_POSITIONS[color]) % BOARD_SIZE

\* C35: for every token on the main track of a player who is not eliminated,
\* of colour c, the forward distance from the entry offset of c to the
\* position of the token, modulo 52, is within 0..49: the token rests
\* neither on its own home entrance nor on the square between the home
\* entrance and the entry offset, so it never passes its home entrance.
C35_WithinLap ==
    \A s \in AliveSeats(game), i \in 1..TOKENS_PER_PLAYER :
        OnMainTrack(game.players[s].tokens[i])
        => /\ LapDistance(game.players[s].color, game.players[s].tokens[i].position)
                 \in 0..(BOARD_SIZE - 3)
           /\ game.players[s].tokens[i].position # HOME_ENTRANCE[game.players[s].color]

C35_Witness ==
    /\ Moved
    /\ last.seat \in AliveSeats(game)
    /\ last.diceValue = 6
    /\ OnMainTrack(last.before)
    /\ OnMainTrack(TokenNow)
    /\ LapDistance(game.players[last.seat].color, TokenNow.position) = BOARD_SIZE - 3
    /\ game.players[last.seat].color = "green"

\* the tokens of seat s that stand on square q of the main track
TrackTokensAt(g, s, q) ==
    {i \in 1..TOKENS_PER_PLAYER :
        OnMainTrack(g.players[s].tokens[i]) /\ g.players[s].tokens[i].position = q}

C37_RemoveKeepsTurn ==
    [][(/\ last'.op = "removePlayer"
        /\ last'.success
        /\ CurId(game) # 0
        /\ CurId(game) # last'.pid)
       => /\ CurSeat(game') \in 1..Len(game'.players)
          /\ CurId(game') = CurId(game)]_vars

\* C38: consecutiveSixes is 0, 1 or 2 after every operation, and it is 0
\* whenever the turn has just passed to another player; no token is moved
\* with a six that was the third in a row.
C38_SixStreak ==
    [][/\ game'.consecutiveSixes \in 0..2
       /\ (game'.gameStarted /\ CurId(game') # CurId(game))
          => game'.consecutiveSixes = 0
       /\ (Moves /\ DiceUsed = 6)
          => /\ ~(last'.rolled /\ game.consecutiveSixes = 2)
             /\ last'.op = "moveToken" => game.consecutiveSixes \in 1..2]_vars

\* C39: a robot is never eliminated: a timeout or an automated step on the
\* turn of a robot counts no missed turn for the robot and never adds it to
\* the eliminated set, so only human players are in the eliminated set.
C39_RobotsNeverOut ==
    /\ game.eliminatedPlayers \subseteq HumanIds
    /\ \A id \in RobotIds : game.playerMissedTurns[id] = 0
    /\ last.pid \in RobotIds => (~last.missed /\ ~last.eliminated)

C39_Witness ==
    /\ last.op = "handleTimerTimeout"
    /\ last.pid \in RobotIds
    /\ last.rolled
    /\ ~last.moved
    /\ ~last.missed
    /\ game.playerMissedTurns[last.pid] = 0
    /\ last.pid \notin game.eliminatedPlayers
    /\ CurId(game) # last.pid

\* C40: when the last player leaves and the room is deleted from the
\* registry, the turn timer of the room is cancelled: no timer tick and no
\* timeout callback runs later against the match of the deleted room.
C40_TimerGoneWithRoom ==
    [][/\ ~roomExists' => ~roomTimer'
       /\ ~roomExists => last'.op # "handleTimerTimeout"]_vars

====
